---- MODULE Spec2Model ----
(***************************************************************************)
(* Model of main.py (ijf-automation): a single-pass batch job that reads   *)
(* a name column and two URL columns of a worksheet, fills empty URL cells *)
(* from directory searches, audits the URL cells by fetching the profile   *)
(* page and colouring suspicious cells, and flushes the pending writes in  *)
(* batches.                                                                *)
(*                                                                         *)
(* Text is modelled as a sequence of one-character strings.  The fixed     *)
(* site prefixes ("https://www.ijf.org", "/judoka/", ...) are kept as      *)
(* single elements of such a sequence, so that startswith() and `in` on   *)
(* URLs are prefix / membership tests on the sequence.                     *)
(* Python's None and "" are both falsy and main.py only ever tests them    *)
(* with `if x` / `not x`; both are modelled by the empty sequence.         *)
(***************************************************************************)
EXTENDS Integers, Sequences, FiniteSets, TLC

VARIABLES
    pc,                     \* position of main(): "start", "aborted", "loop", "flush", "final", "done", "failed"
                            \* (or "call"/"ret" for the pure functions)
    cfg,                    \* ENABLE_IJF, ENABLE_JUDOINSIDE, ENABLE_AUDIT_COLOR
    sheet,                  \* the worksheet: names, ijf and ji cells per row, cell colours
    names_vals, ijf_vals, ji_vals,   \* the three columns as read at the start of the run
    targets, pos,           \* the list of target indices and the loop position in it
    stage,                  \* position in FlushOrder of the next call of the flush under way
    profile_name_cache,     \* url -> (display name, status)
    ijf_updates, ji_updates,
    color_updates_fetch, color_updates_noname, color_updates_lowmatch,
    checked, found,
    web,                    \* whether the directories are deterministic and, if so, what they answered so far
    net,                    \* history: every network call of the run and its answer, in order
    sleeps,                 \* history: number of time.sleep(SLEEP_SEC) calls of the run
    sent,                   \* history: every request sent to the spreadsheet API, in order
    queued,                 \* history: every request appended to a buffer in the run
    run,                    \* number of the current run of main() on this worksheet
    original,               \* history: the worksheet before the first run
    arg, ret                \* argument and result of the pure function under test

vars == <<pc, cfg, sheet, names_vals, ijf_vals, ji_vals, targets, pos, stage,
          profile_name_cache, ijf_updates, ji_updates, color_updates_fetch,
          color_updates_noname, color_updates_lowmatch, checked, found,
          web, net, sleeps, sent, queued, run, original, arg, ret>>

-----------------------------------------------------------------------------
(* Bounds of the model *)

MaxLen == 4         \* longest raw name fed to build_queries_from_name / name_match_score
END_ROW == 3        \* last row of the range (START_ROW..END_ROW)
BATCH_SIZE == 2     \* pending requests that trigger a flush

(* Program constants *)

START_ROW == 2
AUDIT_THRESHOLD == 78      \* 0.78, in hundredths

None == <<>>

-----------------------------------------------------------------------------
(* Text helpers: what the Python string methods and regular expressions do *)

(***************************************************************************)
(* The characters of the model are all of ASCII and the characters of     *)
(* OtherChars.  A printable ASCII character is written as itself, tab,     *)
(* line feed, form feed and carriage return as "\t", "\n", "\f", "\r",     *)
(* any other character (the grave accent among them) as "U+" and its code *)
(* point in four hexadecimal digits: "U+0060", "U+00A0".  The tables list, *)
(* for these characters, what Python 3.11 (Unicode 14) answers for ord(),  *)
(* str.isspace() and \s, \d and int(), str.lower(), str.upper() and        *)
(* re.IGNORECASE.  Text with other characters is outside the model.        *)
(***************************************************************************)

\* the ASCII characters, the character of code c at position c + 1
AsciiChars ==
    << "U+0000", "U+0001", "U+0002", "U+0003", "U+0004", "U+0005", "U+0006",
       "U+0007", "U+0008", "\t", "\n", "U+000B", "\f", "\r", "U+000E",
       "U+000F", "U+0010", "U+0011", "U+0012", "U+0013", "U+0014", "U+0015",
       "U+0016", "U+0017", "U+0018", "U+0019", "U+001A", "U+001B", "U+001C",
       "U+001D", "U+001E", "U+001F", " ", "!", "\"", "#", "$", "%", "&", "'",
       "(", ")", "*", "+", ",", "-", ".", "/", "0", "1", "2", "3", "4", "5",
       "6", "7", "8", "9", ":", ";", "<", "=", ">", "?", "@", "A", "B", "C",
       "D", "E", "F", "G", "H", "I", "J", "K", "L", "M", "N", "O", "P", "Q",
       "R", "S", "T", "U", "V", "W", "X", "Y", "Z", "[", "\\", "]", "^", "_",
       "U+0060", "a", "b", "c", "d", "e", "f", "g", "h", "i", "j", "k", "l", "m",
       "n", "o", "p", "q", "r", "s", "t", "u", "v", "w", "x", "y", "z", "{",
       "|", "}", "~", "U+007F" >>

\* the other characters of the model with their code points: the white space
\* outside ASCII, letters whose case mapping meets ASCII or changes the length
\* (sharp s, dotted and dotless i, long s, Kelvin sign, the ligature fi), E
\* acute, the Greek sigmas, the combining dot above, the en dash, a CJK letter,
\* the Arabic-Indic and the fullwidth digits
OtherChars ==
    << <<"U+0085", 133>>, <<"U+00A0", 160>>, <<"U+00C9", 201>>,
       <<"U+00DF", 223>>, <<"U+00E9", 233>>, <<"U+0130", 304>>,
       <<"U+0131", 305>>, <<"U+017F", 383>>, <<"U+0307", 775>>,
       <<"U+03A3", 931>>, <<"U+03C2", 962>>, <<"U+03C3", 963>>,
       <<"U+0660", 1632>>, <<"U+0661", 1633>>, <<"U+0662", 1634>>,
       <<"U+0663", 1635>>, <<"U+0664", 1636>>, <<"U+0665", 1637>>,
       <<"U+0666", 1638>>, <<"U+0667", 1639>>, <<"U+0668", 1640>>,
       <<"U+0669", 1641>>, <<"U+1680", 5760>>, <<"U+2000", 8192>>,
       <<"U+2001", 8193>>, <<"U+2002", 8194>>, <<"U+2003", 8195>>,
       <<"U+2004", 8196>>, <<"U+2005", 8197>>, <<"U+2006", 8198>>,
       <<"U+2007", 8199>>, <<"U+2008", 8200>>, <<"U+2009", 8201>>,
       <<"U+200A", 8202>>, <<"U+2013", 8211>>, <<"U+2028", 8232>>,
       <<"U+2029", 8233>>, <<"U+202F", 8239>>, <<"U+205F", 8287>>,
       <<"U+212A", 8490>>, <<"U+3000", 12288>>, <<"U+67D4", 26580>>,
       <<"U+FB01", 64257>>, <<"U+FF10", 65296>>, <<"U+FF11", 65297>>,
       <<"U+FF12", 65298>>, <<"U+FF13", 65299>>, <<"U+FF14", 65300>>,
       <<"U+FF15", 65301>>, <<"U+FF16", 65302>>, <<"U+FF17", 65303>>,
       <<"U+FF18", 65304>>, <<"U+FF19", 65305>> >>

\* str.isspace(), which is what \s matches and str.strip() removes
Whitespace ==
    { "\t", "\n", "U+000B", "\f", "\r", "U+001C", "U+001D", "U+001E", "U+001F",
      " ", "U+0085", "U+00A0", "U+1680", "U+2000", "U+2001", "U+2002",
      "U+2003", "U+2004", "U+2005", "U+2006", "U+2007", "U+2008", "U+2009",
      "U+200A", "U+2028", "U+2029", "U+202F", "U+205F", "U+3000" }

UpperCase == <<"A","B","C","D","E","F","G","H","I","J","K","L","M",
               "N","O","P","Q","R","S","T","U","V","W","X","Y","Z">>
LowerCase == <<"a","b","c","d","e","f","g","h","i","j","k","l","m",
               "n","o","p","q","r","s","t","u","v","w","x","y","z">>
Digits == <<"0","1","2","3","4","5","6","7","8","9">>
ArabicIndicDigits == <<"U+0660", "U+0661", "U+0662", "U+0663", "U+0664",
                       "U+0665", "U+0666", "U+0667", "U+0668", "U+0669">>
FullwidthDigits == <<"U+FF10", "U+FF11", "U+FF12", "U+FF13", "U+FF14",
                     "U+FF15", "U+FF16", "U+FF17", "U+FF18", "U+FF19">>

Range(f) == {f[i] : i \in DOMAIN f}

IndexOf(seq, c) == CHOOSE i \in DOMAIN seq : seq[i] = c

SetMin(S) == CHOOSE x \in S : \A y \in S : x <= y
SetMax(S) == CHOOSE x \in S : \A y \in S : x >= y

\* ord(ch)
Ord ==
    [c \in Range(AsciiChars) |-> IndexOf(AsciiChars, c) - 1]
    @@ [c \in {p[1] : p \in Range(OtherChars)} |->
            (CHOOSE p \in Range(OtherChars) : p[1] = c)[2]]

\* [A-Z], [a-z], [0-9]
UpperSet == Range(UpperCase)
LowerSet == Range(LowerCase)
AsciiDigitSet == Range(Digits)

\* int(ch) of a decimal digit; the characters \d matches
DigitValue ==
    [c \in AsciiDigitSet |-> IndexOf(Digits, c) - 1]
    @@ [c \in Range(ArabicIndicDigits) |-> IndexOf(ArabicIndicDigits, c) - 1]
    @@ [c \in Range(FullwidthDigits) |-> IndexOf(FullwidthDigits, c) - 1]
DigitSet == DOMAIN DigitValue

\* str.lower() of one character, where it is not the character itself (for the
\* capital sigma: where it is not at the end of a word)
LowerOf ==
    [c \in UpperSet |-> <<LowerCase[IndexOf(UpperCase, c)]>>]
    @@ "U+00C9" :> <<"U+00E9">>
    @@ "U+0130" :> <<"i", "U+0307">>
    @@ "U+03A3" :> <<"U+03C3">>
    @@ "U+212A" :> <<"k">>

\* str.upper() of one character, where it is not the character itself
UpperOf ==
    [c \in LowerSet |-> <<UpperCase[IndexOf(LowerCase, c)]>>]
    @@ "U+00DF" :> <<"S", "S">>
    @@ "U+00E9" :> <<"U+00C9">>
    @@ "U+0131" :> <<"I">>
    @@ "U+017F" :> <<"S">>
    @@ "U+03C2" :> <<"U+03A3">>
    @@ "U+03C3" :> <<"U+03A3">>
    @@ "U+FB01" :> <<"F", "I">>

\* the cased characters, and the characters a word may contain without ending
\* (they are skipped when str.lower() looks for the end of a word at a sigma)
Cased ==
    UpperSet \cup LowerSet
    \cup { "U+00C9", "U+00DF", "U+00E9", "U+0130", "U+0131", "U+017F",
           "U+03A3", "U+03C2", "U+03C3", "U+212A", "U+FB01" }
CaseIgnorable == { "'", ".", ":", "^", "U+0060", "U+0307" }

\* the characters that match one another under re.IGNORECASE
CaseGroups ==
    { {UpperCase[i], LowerCase[i]} : i \in (1..26) \ {9, 11, 19} }
    \cup { {"I", "i", "U+0130", "U+0131"}, {"K", "k", "U+212A"},
           {"S", "s", "U+017F"}, {"U+00C9", "U+00E9"},
           {"U+03A3", "U+03C2", "U+03C3"} }
CaseGroupOf ==
    [c \in UNION CaseGroups |-> CHOOSE g \in CaseGroups : c \in g]

\* a pattern character p matches the character c under re.IGNORECASE
MatchesIgnoringCase(p, c) ==
    c = p \/ (p \in DOMAIN CaseGroupOf /\ c \in CaseGroupOf[p])

\* the capital sigma at position i ends a word: a cased character comes before
\* it and none after it, characters of CaseIgnorable not counted
FinalSigma(s, i) ==
    LET before == {j \in 1..(i - 1) : s[j] \notin CaseIgnorable}
        after == {j \in (i + 1)..Len(s) : s[j] \notin CaseIgnorable}
    IN  /\ before # {}
        /\ s[SetMax(before)] \in Cased
        /\ (after = {} \/ s[SetMin(after)] \notin Cased)

RECURSIVE LowerFrom(_, _)
LowerFrom(s, i) ==
    IF i > Len(s) THEN <<>>
    ELSE (IF s[i] = "U+03A3" /\ FinalSigma(s, i) THEN <<"U+03C2">>
          ELSE IF s[i] \in DOMAIN LowerOf THEN LowerOf[s[i]]
          ELSE <<s[i]>>)
         \o LowerFrom(s, i + 1)

\* str.lower()
Lower(s) ==
    IF \E i \in DOMAIN s : s[i] \in {"U+0130", "U+03A3"}
    THEN LowerFrom(s, 1)
    ELSE [i \in DOMAIN s |-> IF s[i] \in DOMAIN LowerOf THEN LowerOf[s[i]][1] ELSE s[i]]

\* str.upper()
RECURSIVE Upper(_)
Upper(s) ==
    IF s = <<>> THEN <<>>
    ELSE (IF Head(s) \in DOMAIN UpperOf THEN UpperOf[Head(s)] ELSE <<Head(s)>>)
         \o Upper(Tail(s))

\* str.strip()
Strip(s) ==
    LET keep == {i \in DOMAIN s : s[i] \notin Whitespace}
    IN  IF keep = {} THEN <<>> ELSE SubSeq(s, SetMin(keep), SetMax(keep))

\* re.sub(r"\s+", " ", s)
RECURSIVE CollapseSpaces(_)
CollapseSpaces(s) ==
    IF s = <<>> THEN <<>>
    ELSE IF Head(s) \in Whitespace
         THEN IF Len(s) > 1 /\ s[2] \in Whitespace
              THEN CollapseSpaces(Tail(s))
              ELSE <<" ">> \o CollapseSpaces(Tail(s))
         ELSE <<Head(s)>> \o CollapseSpaces(Tail(s))

normalize_spaces(s) == Strip(CollapseSpaces(s))

\* s.replace(old, " ") for a one-character old
ReplaceBySpace(s, old) == [i \in DOMAIN s |-> IF s[i] = old THEN " " ELSE s[i]]

\* s.split(sep) for a one-character sep: always at least one part
RECURSIVE Split(_, _)
Split(s, sep) ==
    IF \A i \in DOMAIN s : s[i] # sep THEN <<s>>
    ELSE LET k == SetMin({i \in DOMAIN s : s[i] = sep})
         IN  <<SubSeq(s, 1, k - 1)>> \o Split(SubSeq(s, k + 1, Len(s)), sep)

\* s.startswith(prefix)
StartsWith(s, prefix) ==
    Len(prefix) <= Len(s) /\ SubSeq(s, 1, Len(prefix)) = prefix

\* str(n) for n >= 0
RECURSIVE IntToStr(_)
IntToStr(n) ==
    IF n < 10 THEN <<Digits[n + 1]>>
    ELSE IntToStr(n \div 10) \o <<Digits[(n % 10) + 1]>>

\* int(s) for a string of decimal digits
RECURSIVE StrToInt(_)
StrToInt(s) ==
    IF s = <<>> THEN 0
    ELSE 10 * StrToInt(SubSeq(s, 1, Len(s) - 1)) + DigitValue[s[Len(s)]]

-----------------------------------------------------------------------------
(* Utils of main.py *)

\* n = n * 26 + (ord(ch) - ord("A") + 1) over the characters of col.upper()
RECURSIVE ColumnNumber(_)
ColumnNumber(col) ==
    IF col = <<>> THEN 0
    ELSE ColumnNumber(SubSeq(col, 1, Len(col) - 1)) * 26
         + (Ord[col[Len(col)]] - Ord["A"] + 1)

col_to_index(col) == ColumnNumber(Upper(col))

a1_notation(col_letter, row) == col_letter \o IntToStr(row)

\* the de-duplicating loop at the end of build_queries_from_name
RECURSIVE DedupQueries(_, _)
DedupQueries(qs, seen) ==
    IF qs = <<>> THEN <<>>
    ELSE IF Head(qs) # <<>> /\ Head(qs) \notin seen
         THEN <<Head(qs)>> \o DedupQueries(Tail(qs), seen \cup {Head(qs)})
         ELSE DedupQueries(Tail(qs), seen)

\* the swapped query appended when the name has a comma (or nothing)
SwappedQueries(raw, qs) ==
    IF \E i \in DOMAIN raw : raw[i] = ","
    THEN LET split == Split(raw, ",")
             parts == [i \in DOMAIN split |-> normalize_spaces(split[i])]
         IN  IF Len(parts) >= 2 /\ parts[1] # <<>> /\ parts[2] # <<>>
             THEN LET swapped == normalize_spaces(parts[2] \o <<" ">> \o parts[1])
                  IN  IF swapped # <<>> /\ swapped \notin Range(qs)
                      THEN <<swapped>> ELSE <<>>
             ELSE <<>>
    ELSE <<>>

build_queries_from_name(raw0) ==
    LET raw == normalize_spaces(raw0)
    IN  IF raw = <<>> THEN <<>>
        ELSE LET no_comma == normalize_spaces(ReplaceBySpace(raw, ","))
                 qs == <<no_comma>>
             IN  DedupQueries(qs \o SwappedQueries(raw, qs), {})

\* re.sub(r"[^a-z0-9\s\-']", " ", s)
TokenChars == LowerSet \cup AsciiDigitSet \cup Whitespace \cup {"-", "'"}
KeepTokenChars(s) == [i \in DOMAIN s |-> IF s[i] \in TokenChars THEN s[i] ELSE " "]

token_set(s0) ==
    LET s == normalize_spaces(KeepTokenChars(Lower(normalize_spaces(s0))))
    IN  IF s = <<>> THEN {} ELSE Range(Split(s, " "))

\* the score inter / union as the fraction <<inter, union>>; 0.0 is <<0, 1>>
name_match_score(query, page_name) ==
    LET a == token_set(query)
        b == token_set(page_name)
    IN  IF a = {} \/ b = {} THEN <<0, 1>>
        ELSE <<Cardinality(a \cap b), Cardinality(a \cup b)>>

\* comparisons of fractions with positive denominators
FracLess(x, y) == x[1] * y[2] < y[1] * x[2]
FracIsZero(x) == x[1] = 0
\* x < AUDIT_THRESHOLD
BelowAuditThreshold(x) == x[1] * 100 < AUDIT_THRESHOLD * x[2]

\* max((name_match_score(q, disp_name) for q in qs), default=0.0)
RECURSIVE MaxScore(_, _)
MaxScore(qs, disp_name) ==
    IF qs = <<>> THEN <<0, 1>>
    ELSE LET first == name_match_score(Head(qs), disp_name)
             rest == MaxScore(Tail(qs), disp_name)
         IN  IF Len(qs) > 1 /\ FracLess(first, rest) THEN rest ELSE first

-----------------------------------------------------------------------------
(* Configuration of main.py *)

SEARCH_COL == <<"F">>
IJF_COL == <<"Q">>
JUDOINSIDE_COL == <<"P">>

COLOR_FETCH == <<100, 85, 85>>
COLOR_NO_NAME == <<100, 92, 80>>
COLOR_LOW_MATCH == <<100, 98, 75>>

IJF_BASE == <<"https://www.ijf.org">>
IJF_JUDOKA_PREFIX == <<"https://www.ijf.org", "/judoka/">>
JUDOINSIDE_BASE == <<"https://judoinside.com">>

Rows == START_ROW..END_ROW

-----------------------------------------------------------------------------
(* The worksheet (gspread) *)

Cell(col, row) == <<col_to_index(col), row>>

\* ws.get("<col><start>:<col><end>"): one list per row, [] for an empty cell,
\* rows after the last non-empty one left out
WsGet(sh, col, start_row, end_row) ==
    LET filled == {r \in start_row..end_row : sh.values[Cell(col, r)] # <<>>}
        last == IF filled = {} THEN start_row - 1 ELSE SetMax(filled)
    IN  [i \in 1..(last - start_row + 1) |->
            LET v == sh.values[Cell(col, start_row + i - 1)]
            IN  IF v = <<>> THEN <<>> ELSE <<v>>]

\* variant: the columns are read from the worksheet as it was before the first
\* run, as if flushed batches were not durable
StaleColumnValues(sh, col, start_row, end_row) ==
    LET vals == WsGet(original, col, start_row, end_row)
        need == end_row - start_row + 1
    IN  IF Len(vals) < need
        THEN vals \o [i \in 1..(need - Len(vals)) |-> <<>>]
        ELSE vals

get_column_values_padded(sh, col, start_row, end_row) ==
    LET vals == WsGet(sh, col, start_row, end_row)
        need == end_row - start_row + 1
    IN  IF Len(vals) < need
        THEN vals \o [i \in 1..(need - Len(vals)) |-> <<>>]
        ELSE vals

\* (vals[i][0] if vals[i] else "").strip(), i counted from 0 as in main()
CellText(vals, i) == Strip(IF vals[i + 1] # <<>> THEN vals[i + 1][1] ELSE <<>>)

\* sorted(updates, key=lambda x: x[0]): a stable insertion sort on the row
RECURSIVE SortByRow(_)
SortByRow(updates) ==
    IF updates = <<>> THEN <<>>
    ELSE LET rest == SortByRow(SubSeq(updates, 1, Len(updates) - 1))
             x == updates[Len(updates)]
             k == Cardinality({i \in DOMAIN rest : rest[i][1] <= x[1]})
         IN  SubSeq(rest, 1, k) \o <<x>> \o SubSeq(rest, k + 1, Len(rest))

\* the requests update_cells_in_col sends: none, or one values_batch_update
update_cells_in_col(col, updates) ==
    IF updates = <<>> THEN <<>>
    ELSE LET sorted == SortByRow(updates)
         IN  << [op |-> "values_batch_update",
                 data |-> [i \in DOMAIN sorted |->
                             [range |-> col \o IntToStr(sorted[i][1]),
                              values |-> sorted[i][2]]]] >>

\* re.match(r"^([A-Z]+)(\d+)$", a1): <<matched, col, int(row)>>; the $ also
\* matches before a line feed that ends the text
ParseA1(a1) ==
    LET end == IF a1 # <<>> /\ a1[Len(a1)] = "\n" THEN Len(a1) - 1 ELSE Len(a1)
        nonletters == {i \in 1..end : a1[i] \notin UpperSet}
        k == IF nonletters = {} THEN end ELSE SetMin(nonletters) - 1
    IN  IF k >= 1 /\ k < end
           /\ \A i \in (k + 1)..end : a1[i] \in DigitSet
        THEN <<TRUE, SubSeq(a1, 1, k), StrToInt(SubSeq(a1, k + 1, end))>>
        ELSE <<FALSE, <<>>, 0>>

\* the repeatCell requests of set_bg_colors_batch, one per a1 that matches
RECURSIVE RepeatCells(_)
RepeatCells(a1_list) ==
    IF a1_list = <<>> THEN <<>>
    ELSE LET m == ParseA1(Head(a1_list))
         IN  IF ~m[1] THEN RepeatCells(Tail(a1_list))
             ELSE << [startRowIndex |-> m[3] - 1,
                      startColumnIndex |-> col_to_index(m[2]) - 1] >>
                  \o RepeatCells(Tail(a1_list))

\* the requests set_bg_colors_batch sends: none, or one batch_update
set_bg_colors_batch(a1_list, rgb) ==
    IF a1_list = <<>> THEN <<>>
    ELSE LET payload == RepeatCells(a1_list)
         IN  IF payload = <<>> THEN <<>>
             ELSE << [op |-> "batch_update", requests |-> payload, rgb |-> rgb] >>

\* the worksheet after one API request
RECURSIVE ApplyData(_, _)
ApplyData(sh, data) ==
    IF data = <<>> THEN sh
    ELSE LET m == ParseA1(Head(data).range)
             c == Cell(m[2], m[3])
         IN  ApplyData([sh EXCEPT !.values[c] = Head(data).values], Tail(data))

RECURSIVE ApplyColors(_, _, _)
ApplyColors(sh, reqs, rgb) ==
    IF reqs = <<>> THEN sh
    ELSE LET c == <<Head(reqs).startColumnIndex + 1, Head(reqs).startRowIndex + 1>>
         IN  ApplyColors([sh EXCEPT !.colors = (c :> rgb) @@ sh.colors], Tail(reqs), rgb)

ApplyRequest(sh, req) ==
    IF req.op = "values_batch_update" THEN ApplyData(sh, req.data)
    ELSE ApplyColors(sh, req.requests, req.rgb)

RECURSIVE ApplyRequests(_, _)
ApplyRequests(sh, reqs) ==
    IF reqs = <<>> THEN sh
    ELSE ApplyRequests(ApplyRequest(sh, Head(reqs)), Tail(reqs))

-----------------------------------------------------------------------------
(* The directories: what http_get returns, and how the answer is parsed *)

\* http_get raised / timed out: the function returns None
NoResponse == [resp |-> FALSE, status |-> 0]

HttpBases == {"https://www.ijf.org", "http://www.ijf.org", "https://judoinside.com"}

\* the run of digits \d+ that starts at position k of u
RECURSIVE DigitRun(_, _)
DigitRun(u, k) ==
    IF k <= Len(u) /\ u[k] \in DigitSet
    THEN <<u[k]>> \o DigitRun(u, k + 1)
    ELSE <<>>

\* re.search(r"(https?://www\.ijf\.org/judoka/\d+)", u): group 1, or None
IjfJudokaMatch(u) ==
    LET hits == {i \in DOMAIN u :
                    /\ u[i] \in {"https://www.ijf.org", "http://www.ijf.org"}
                    /\ i + 2 <= Len(u)
                    /\ u[i + 1] = "/judoka/"
                    /\ u[i + 2] \in DigitSet}
    IN  IF hits = {} THEN None
        ELSE LET i == SetMin(hits) IN <<u[i], u[i + 1]>> \o DigitRun(u, i + 2)

\* the loop over soup.select("a[href]") of ijf_search_judoka_url
RECURSIVE IjfFirstLink(_)
IjfFirstLink(hrefs) ==
    IF hrefs = <<>> THEN None
    ELSE LET href == Head(hrefs)
             u == IF href # <<>> /\ Head(href) \in HttpBases THEN href ELSE IJF_BASE \o href
             m == IF "/judoka/" \in Range(href) THEN IjfJudokaMatch(u) ELSE None
         IN  IF m # None THEN m ELSE IjfFirstLink(Tail(hrefs))

\* ijf_search_judoka_url, given the answer r of the site to the search request
ijf_search_judoka_url(query, r) ==
    IF normalize_spaces(query) = <<>> THEN None
    ELSE IF ~r.resp \/ r.status # 200 THEN None
    ELSE IjfFirstLink(r.hrefs)

\* the loop over soup.select("a[href]") of judoinside_search_url
RECURSIVE JiFirstLink(_)
JiFirstLink(hrefs) ==
    IF hrefs = <<>> THEN None
    ELSE LET href == Head(hrefs)
         IN  IF StartsWith(href, <<"/judoka/">>) THEN JUDOINSIDE_BASE \o href
             ELSE IF StartsWith(href, JUDOINSIDE_BASE \o <<"/judoka/">>) THEN href
             ELSE JiFirstLink(Tail(hrefs))

judoinside_search_url(query, r) ==
    IF normalize_spaces(query) = <<>> THEN None
    ELSE IF ~r.resp \/ r.status # 200 THEN None
    ELSE JiFirstLink(r.hrefs)

\* the text t has the site's name at position j, in any case
SiteNameAt(t, j, site) ==
    /\ j + Len(site) - 1 <= Len(t)
    /\ \A m \in DOMAIN site : MatchesIgnoringCase(site[m], t[j + m - 1])

\* re.sub(r"\s*[seps]\s*<SITE>.*$", "", t, flags=re.IGNORECASE).strip() for a
\* text t without line feeds (it went through normalize_spaces): the title up
\* to the first separator that is followed by the site's name
TitleCut(t, seps, site) ==
    LET cuts == {i \in DOMAIN t :
                    /\ t[i] \in seps
                    /\ \E j \in (i + 1)..Len(t) :
                          /\ SiteNameAt(t, j, site)
                          /\ \A k \in (i + 1)..(j - 1) : t[k] \in Whitespace}
    IN  IF cuts = {} THEN Strip(t) ELSE Strip(SubSeq(t, 1, SetMin(cuts) - 1))

\* the name of a profile page: the h1 text, else the title without the site's suffix
ExtractProfileName(soup, seps, site) ==
    LET h == normalize_spaces(soup.h1)
        t == TitleCut(normalize_spaces(soup.title), seps, site)
    IN  IF h # <<>> /\ Len(h) >= 3 THEN h
        ELSE IF soup.title # <<>> /\ t # <<>> /\ Len(t) >= 3 THEN t
        ELSE None

ijf_extract_profile_name(soup) ==
    ExtractProfileName(soup, {"-", "|", "/"}, <<"I", "J", "F">>)

judoinside_extract_profile_name(soup) ==
    ExtractProfileName(soup, {"-"}, <<"J", "u", "d", "o", "I", "n", "s", "i", "d", "e">>)

\* fetch_profile_display_name, given the answer r of the site: <<display_name, status>>
fetch_profile_display_name(url, r) ==
    IF ~r.resp \/ r.status # 200 THEN <<None, "FETCH">>
    ELSE LET name == IF StartsWith(url, IJF_JUDOKA_PREFIX)
                       THEN ijf_extract_profile_name(r)
                     ELSE IF StartsWith(url, JUDOINSIDE_BASE \o <<"/judoka/">>)
                       THEN judoinside_extract_profile_name(r)
                     ELSE None
         IN  IF name = None THEN <<None, "NO_NAME">> ELSE <<name, "OK">>

-----------------------------------------------------------------------------
(* The inputs of the model: worksheet rows and answers of the directories *)

NAME_EMPTY == <<>>
NAME_HEADER == <<"N", "a", "m", "e">>
NAME_LI_AL == <<"L", "i", ",", " ", "A", "l">>
NAME_AL_LI == <<"A", "l", " ", "L", "i">>
NAME_COMMA == <<",">>

URL_IJF_1 == <<"https://www.ijf.org", "/judoka/", "1">>
URL_JI_7 == <<"https://judoinside.com", "/judoka/", "7">>
TEXT_BLANK == <<" ">>
TEXT_OTHER == <<"x">>

\* the rows a worksheet of the model is made of
RowSamples ==
    { [name |-> NAME_EMPTY,  ijf |-> <<>>,       ji |-> <<>>],
      [name |-> NAME_HEADER, ijf |-> URL_IJF_1,  ji |-> <<>>],
      [name |-> NAME_COMMA,  ijf |-> <<>>,       ji |-> <<>>],
      [name |-> NAME_AL_LI,  ijf |-> <<>>,       ji |-> <<>>],
      [name |-> NAME_LI_AL,  ijf |-> TEXT_BLANK, ji |-> TEXT_OTHER],
      [name |-> NAME_LI_AL,  ijf |-> URL_IJF_1,  ji |-> <<>>],
      [name |-> NAME_LI_AL,  ijf |-> TEXT_OTHER, ji |-> URL_JI_7] }

SheetOf(rows) ==
    [values |-> [c \in {col_to_index(SEARCH_COL), col_to_index(IJF_COL),
                        col_to_index(JUDOINSIDE_COL)} \X Rows |->
                    IF c[1] = col_to_index(SEARCH_COL) THEN rows[c[2]].name
                    ELSE IF c[1] = col_to_index(IJF_COL) THEN rows[c[2]].ijf
                    ELSE rows[c[2]].ji],
     colors |-> <<>>]

\* answers of www.ijf.org/search: an error page, and a result page whose links are
\* a news link, a profile link of another site, a profile link without a number
\* and a relative profile link
IjfAnswers ==
    { [resp |-> TRUE, status |-> 404, hrefs |-> <<>>],
      [resp |-> TRUE, status |-> 200,
       hrefs |-> << <<"/news/">>, <<"https://judoinside.com", "/judoka/", "9">>,
                    <<"/judoka/">>, <<"/judoka/", "1">> >>] }

\* answers of judoinside.com/search: no response, a result page with a profile link
JiAnswers ==
    { NoResponse,
      [resp |-> TRUE, status |-> 200,
       hrefs |-> << <<"/search">>, <<"/judoka/", "7">> >>] }

\* answers of a profile page: no response, 404, a page without a usable name,
\* a page titled "Al Li - ijf", a page whose h1 is "Al Bo"
ProfileAnswers ==
    { NoResponse,
      [resp |-> TRUE, status |-> 404, h1 |-> None, title |-> None],
      [resp |-> TRUE, status |-> 200, h1 |-> <<"L", "i">>, title |-> None],
      [resp |-> TRUE, status |-> 200, h1 |-> None,
       title |-> <<"A", "l", " ", "L", "i", " ", "-", " ", "i", "j", "f">>],
      [resp |-> TRUE, status |-> 200, h1 |-> <<"A", "l", " ", "B", "o">>, title |-> None] }

Answers(site) ==
    IF site = "ijf" THEN IjfAnswers ELSE IF site = "ji" THEN JiAnswers ELSE ProfileAnswers

\* what a request can be answered with. Nothing in the program remembers the
\* answer of a search, so the same request may be answered differently each
\* time it is made; when the directories are taken to be deterministic
\* (web.fixed), a request seen before gets the answer it got before
AnswersTo(site, key) ==
    IF web.fixed /\ key \in DOMAIN web[site] THEN {web[site][key]} ELSE Answers(site)

SearchResult(site, q, r) ==
    IF site = "ijf" THEN ijf_search_judoka_url(q, r) ELSE judoinside_search_url(q, r)

\* the runs of the loop `for q in qs: got = search(q); sleep; if got: break`:
\* the sequence of answers received, one per query tried
RECURSIVE SearchRuns(_, _)
SearchRuns(site, qs) ==
    IF qs = <<>> THEN {<<>>}
    ELSE UNION { IF SearchResult(site, Head(qs), r) # None
                 THEN {<<r>>}
                 ELSE {<<r>> \o t : t \in SearchRuns(site, Tail(qs))}
                 : r \in AnswersTo(site, normalize_spaces(Head(qs))) }

\* the value of `got` after the loop
GotOf(site, qs, answers) ==
    IF answers = <<>> THEN None
    ELSE SearchResult(site, qs[Len(answers)], answers[Len(answers)])

\* the answers a deterministic web is committed to after a run of the loop
Learned(known, qs, answers) ==
    IF ~web.fixed THEN known
    ELSE [k \in {normalize_spaces(qs[i]) : i \in DOMAIN answers} |->
            LET i == CHOOSE j \in DOMAIN answers : normalize_spaces(qs[j]) = k
            IN  answers[i]] @@ known

\* the calls of a run of the loop, as logged: the query and the answer received
Calls(kind, row, qs, answers) ==
    [i \in DOMAIN answers |->
        [kind |-> kind, row |-> row, what |-> qs[i], answer |-> answers[i]]]

-----------------------------------------------------------------------------
(* main(): the decisions *)

\* variant: the header token is compared case-sensitively
SkipsExactHeaderOnly(raw) == raw = <<>> \/ raw = <<"n", "a", "m", "e">>

\* `not raw or raw.lower() == "name"`
IsSkippedName(raw) == raw = <<>> \/ Lower(raw) = <<"n", "a", "m", "e">>

\* variant: the search runs whenever the directory is enabled
FillsWheneverEnabled(enabled, cell) == enabled

\* `ENABLE_x and not x_cell`
NeedsFill(enabled, cell) == enabled /\ cell = <<>>

\* the body of the loop that builds `targets`
IsTarget(nv, iv, jv, i) ==
    LET raw == CellText(nv, i)
        ijf_cell == CellText(iv, i)
        ji_cell == CellText(jv, i)
        need_fill == NeedsFill(cfg.ENABLE_IJF, ijf_cell)
                     \/ NeedsFill(cfg.ENABLE_JUDOINSIDE, ji_cell)
        need_audit == cfg.ENABLE_AUDIT_COLOR /\ (ijf_cell # <<>> \/ ji_cell # <<>>)
    IN  ~IsSkippedName(raw) /\ (need_fill \/ need_audit)

RECURSIVE TargetsFrom(_, _, _, _, _)
TargetsFrom(nv, iv, jv, i, n) ==
    IF i >= n THEN <<>>
    ELSE (IF IsTarget(nv, iv, jv, i) THEN <<i>> ELSE <<>>)
         \o TargetsFrom(nv, iv, jv, i + 1, n)

\* which cell is audited: the IJF cell first, else the JudoInside cell
AuditTarget(ijf_cell, ji_cell) ==
    IF StartsWith(ijf_cell, IJF_JUDOKA_PREFIX)
    THEN [url |-> ijf_cell, col |-> IJF_COL]
    ELSE IF StartsWith(ji_cell, JUDOINSIDE_BASE \o <<"/judoka/">>)
    THEN [url |-> ji_cell, col |-> JUDOINSIDE_COL]
    ELSE [url |-> None, col |-> None]

\* variant: the cache is never consulted
NeverCached(url) == FALSE

\* `best_url in profile_name_cache`
CacheHit(url) == url \in DOMAIN profile_name_cache

\* variant: a page without a name is scored like any other
ScoresMissingNames(st, disp_name, qs) ==
    IF st = "FETCH" THEN "fetch"
    ELSE IF BelowAuditThreshold(MaxScore(qs, disp_name)) THEN "lowmatch"
    ELSE "ok"

\* the colour list the audited cell is appended to, or "ok"
AuditList(st, disp_name, qs) ==
    IF st = "FETCH" THEN "fetch"
    ELSE IF st = "NO_NAME" \/ disp_name = None THEN "noname"
    ELSE IF BelowAuditThreshold(MaxScore(qs, disp_name)) THEN "lowmatch"
    ELSE "ok"

ColorOf(list) ==
    IF list = "fetch" THEN COLOR_FETCH
    ELSE IF list = "noname" THEN COLOR_NO_NAME
    ELSE COLOR_LOW_MATCH

\* the flush condition
FlushDue(total_pending) == total_pending >= BATCH_SIZE

\* variant: the buffer is not reset after the batch flush
KeptAfterFlush(buffer) == buffer

\* a buffer after it was sent in the batch flush
Emptied(buffer) == <<>>

\* the buffers of main() as one record
Buffers ==
    [ijf |-> ijf_updates, ji |-> ji_updates, fetch |-> color_updates_fetch,
     noname |-> color_updates_noname, lowmatch |-> color_updates_lowmatch]

\* variant: the colour requests are sent before the URL writes
ColoursFirst == <<"fetch", "noname", "lowmatch", "ijf", "ji">>

\* the order in which a flush sends the buffers, one API call each
FlushOrder == <<"ijf", "ji", "fetch", "noname", "lowmatch">>

\* the `if` in front of each call of a flush
Due(b, name) ==
    /\ b[name] # <<>>
    /\ name \in {"fetch", "noname", "lowmatch"} => cfg.ENABLE_AUDIT_COLOR

\* the position in the flush of the next call made from position k on, or
\* Len(FlushOrder) + 1 when the flush makes no further call
NextDue(b, k) ==
    LET due == {j \in k..Len(FlushOrder) : Due(b, FlushOrder[j])}
    IN  IF due = {} THEN Len(FlushOrder) + 1 ELSE SetMin(due)

\* the request the call for a buffer sends (none when no address of a colour
\* list parses)
RequestsOf(b, name) ==
    IF name = "ijf" THEN update_cells_in_col(IJF_COL, b.ijf)
    ELSE IF name = "ji" THEN update_cells_in_col(JUDOINSIDE_COL, b.ji)
    ELSE IF name = "fetch" THEN set_bg_colors_batch(b.fetch, COLOR_FETCH)
    ELSE IF name = "noname" THEN set_bg_colors_batch(b.noname, COLOR_NO_NAME)
    ELSE set_bg_colors_batch(b.lowmatch, COLOR_LOW_MATCH)

-----------------------------------------------------------------------------
(* main(): the steps *)

\* the worksheets a run can start from, and the feature toggles
Configs == [ENABLE_IJF : BOOLEAN, ENABLE_JUDOINSIDE : BOOLEAN, ENABLE_AUDIT_COLOR : BOOLEAN]

Idle ==
    /\ names_vals = <<>> /\ ijf_vals = <<>> /\ ji_vals = <<>>
    /\ targets = <<>> /\ pos = 1 /\ stage = 1
    /\ profile_name_cache = <<>>
    /\ ijf_updates = <<>> /\ ji_updates = <<>>
    /\ color_updates_fetch = <<>> /\ color_updates_noname = <<>>
    /\ color_updates_lowmatch = <<>>
    /\ checked = 0 /\ found = 0
    /\ net = <<>> /\ sleeps = 0 /\ queued = <<>>

\* nothing is known of the web before the first request
NoAnswers(fixed) == [fixed |-> fixed, ijf |-> <<>>, ji |-> <<>>, profile |-> <<>>]

Init ==
    /\ pc = "start"
    /\ run = 1
    /\ cfg \in Configs
    /\ sheet \in {SheetOf(rows) : rows \in [Rows -> RowSamples]}
    /\ original = sheet
    /\ web = NoAnswers(FALSE)
    /\ sent = <<>>
    /\ arg = <<>> /\ ret = <<>>
    /\ Idle

\* main() up to the loop: the columns are read, the targets listed, the buffers created
Start ==
    /\ pc = "start"
    /\ pc' = "loop"
    /\ LET nv == get_column_values_padded(sheet, SEARCH_COL, START_ROW, END_ROW)
           iv == get_column_values_padded(sheet, IJF_COL, START_ROW, END_ROW)
           jv == get_column_values_padded(sheet, JUDOINSIDE_COL, START_ROW, END_ROW)
       IN  /\ names_vals' = nv
           /\ ijf_vals' = iv
           /\ ji_vals' = jv
           /\ targets' = TargetsFrom(nv, iv, jv, 0, END_ROW - START_ROW + 1)
    /\ pos' = 1 /\ stage' = 1
    /\ profile_name_cache' = <<>>
    /\ ijf_updates' = <<>> /\ ji_updates' = <<>>
    /\ color_updates_fetch' = <<>> /\ color_updates_noname' = <<>>
    /\ color_updates_lowmatch' = <<>>
    /\ checked' = 0 /\ found' = 0
    /\ net' = <<>> /\ sleeps' = 0 /\ queued' = <<>>
    /\ UNCHANGED <<cfg, sheet, web, sent, run, original, arg, ret>>

\* a read of a column raises (gspread's APIError): nothing in main() catches it
\* and the process ends before anything was searched or written
ReadError ==
    /\ pc = "start"
    /\ pc' = "aborted"
    /\ UNCHANGED <<cfg, sheet, names_vals, ijf_vals, ji_vals, targets, pos, stage,
                   profile_name_cache, ijf_updates, ji_updates, color_updates_fetch,
                   color_updates_noname, color_updates_lowmatch, checked, found,
                   web, net, sleeps, sent, queued, run, original, arg, ret>>

\* the fill steps 1) and 2) of one iteration, and the choice of the audited cell
FillStage(row, qs, ijf_cell0, ji_cell0, ia, ja) ==
    LET gotI == GotOf("ijf", qs, ia)
        gotJ == GotOf("ji", qs, ja)
        ijf_cell == IF gotI # None THEN gotI ELSE ijf_cell0
        ji_cell == IF gotJ # None THEN gotJ ELSE ji_cell0
        tgt == IF cfg.ENABLE_AUDIT_COLOR THEN AuditTarget(ijf_cell, ji_cell)
               ELSE [url |-> None, col |-> None]
        audited == tgt.url # None /\ tgt.col # None
    IN  [gotI |-> gotI, gotJ |-> gotJ,
         iu |-> IF gotI # None THEN Append(ijf_updates, <<row, gotI>>) ELSE ijf_updates,
         ju |-> IF gotJ # None THEN Append(ji_updates, <<row, gotJ>>) ELSE ji_updates,
         tgt |-> tgt, audited |-> audited,
         hit |-> audited /\ CacheHit(tgt.url)]

\* the audit step 3) of one iteration and the test of the batch flush
AuditStage(row, qs, f, pa) ==
    LET res == IF f.hit THEN profile_name_cache[f.tgt.url]
               ELSE fetch_profile_display_name(f.tgt.url, pa)
        list == IF f.audited THEN AuditList(res[2], res[1], qs) ELSE "ok"
        a1 == a1_notation(f.tgt.col, row)
        cf == IF list = "fetch" THEN Append(color_updates_fetch, a1)
              ELSE color_updates_fetch
        cn == IF list = "noname" THEN Append(color_updates_noname, a1)
              ELSE color_updates_noname
        cl == IF list = "lowmatch" THEN Append(color_updates_lowmatch, a1)
              ELSE color_updates_lowmatch
        total_pending == Len(f.iu) + Len(f.ju) + Len(cf) + Len(cn) + Len(cl)
    IN  [res |-> res, list |-> list, a1 |-> a1,
         b |-> [ijf |-> f.iu, ji |-> f.ju, fetch |-> cf, noname |-> cn, lowmatch |-> cl],
         flush |-> FlushDue(total_pending),
         fetched |-> f.audited /\ ~f.hit]

\* one iteration of `for idx in targets` up to the test of the batch flush:
\* fill, audit, count
ProcessRecord ==
    /\ pc = "loop"
    /\ pos <= Len(targets)
    /\ pos' = pos + 1
    /\ stage' = 1
    /\ \E row \in {START_ROW + targets[pos]} :
       \E qs \in {build_queries_from_name(CellText(names_vals, targets[pos]))} :
       \E ijf_cell0 \in {CellText(ijf_vals, targets[pos])} :
       \E ji_cell0 \in {CellText(ji_vals, targets[pos])} :
           IF qs = <<>>
           THEN UNCHANGED <<pc, profile_name_cache, ijf_updates, ji_updates,
                            color_updates_fetch, color_updates_noname,
                            color_updates_lowmatch, checked, found, web, net,
                            sleeps, queued>>
           ELSE
           \E ia \in (IF NeedsFill(cfg.ENABLE_IJF, ijf_cell0)
                      THEN SearchRuns("ijf", qs) ELSE {<<>>}) :
           \E ja \in (IF NeedsFill(cfg.ENABLE_JUDOINSIDE, ji_cell0)
                      THEN SearchRuns("ji", qs) ELSE {<<>>}) :
           \E f \in {FillStage(row, qs, ijf_cell0, ji_cell0, ia, ja)} :
           \E pa \in (IF f.audited /\ ~f.hit THEN AnswersTo("profile", f.tgt.url)
                      ELSE {NoResponse}) :
           \E a \in {AuditStage(row, qs, f, pa)} :
               /\ pc' = IF a.flush /\ NextDue(a.b, 1) <= Len(FlushOrder)
                        THEN "flush" ELSE "loop"
               /\ ijf_updates' = a.b.ijf
               /\ ji_updates' = a.b.ji
               /\ color_updates_fetch' = a.b.fetch
               /\ color_updates_noname' = a.b.noname
               /\ color_updates_lowmatch' = a.b.lowmatch
               /\ profile_name_cache' =
                    IF a.fetched THEN (f.tgt.url :> a.res) @@ profile_name_cache
                    ELSE profile_name_cache
               /\ checked' = checked + 1
               /\ found' = IF f.gotI # None THEN found + 1 ELSE found
               /\ web' = [fixed |-> web.fixed,
                          ijf |-> Learned(web.ijf, qs, ia),
                          ji |-> Learned(web.ji, qs, ja),
                          profile |-> IF a.fetched /\ web.fixed
                                      THEN (f.tgt.url :> pa) @@ web.profile
                                      ELSE web.profile]
               /\ net' = net \o Calls("ijf_search", row, qs, ia)
                             \o Calls("ji_search", row, qs, ja)
                             \o (IF a.fetched
                                 THEN <<[kind |-> "profile", row |-> row,
                                         what |-> f.tgt.url, answer |-> pa]>>
                                 ELSE <<>>)
               /\ sleeps' = sleeps + Len(ia) + Len(ja) + (IF a.fetched THEN 1 ELSE 0)
               /\ queued' = queued
                    \o (IF f.gotI # None
                        THEN <<[kind |-> "url", a1 |-> a1_notation(IJF_COL, row),
                                value |-> f.gotI]>>
                        ELSE <<>>)
                    \o (IF f.gotJ # None
                        THEN <<[kind |-> "url", a1 |-> a1_notation(JUDOINSIDE_COL, row),
                                value |-> f.gotJ]>>
                        ELSE <<>>)
                    \o (IF a.list # "ok"
                        THEN <<[kind |-> "color", a1 |-> a.a1, value |-> ColorOf(a.list)]>>
                        ELSE <<>>)
    /\ UNCHANGED <<cfg, sheet, names_vals, ijf_vals, ji_vals, targets, sent, run,
                   original, arg, ret>>

\* one API call of a flush: the request of the buffer at position k is sent and
\* the worksheet takes it
SendBuffer(k) ==
    \E reqs \in {RequestsOf(Buffers, FlushOrder[k])} :
        /\ sent' = sent \o reqs
        /\ sheet' = ApplyRequests(sheet, reqs)

\* the buffers after the one at position k was sent and reset
ResetBuffer(k) ==
    [name \in DOMAIN Buffers |->
        IF name = FlushOrder[k] THEN Emptied(Buffers[name]) ELSE Buffers[name]]

\* the batch flush, one call at a time: the next non-empty buffer is sent and
\* reset; after the last call the loop goes on
FlushStep ==
    /\ pc = "flush"
    /\ \E k \in {NextDue(Buffers, stage)} :
           /\ k <= Len(FlushOrder)
           /\ SendBuffer(k)
           /\ \E b \in {ResetBuffer(k)} :
                  /\ ijf_updates' = b.ijf
                  /\ ji_updates' = b.ji
                  /\ color_updates_fetch' = b.fetch
                  /\ color_updates_noname' = b.noname
                  /\ color_updates_lowmatch' = b.lowmatch
                  /\ IF NextDue(b, k + 1) <= Len(FlushOrder)
                     THEN pc' = "flush" /\ stage' = k + 1
                     ELSE pc' = "loop" /\ stage' = 1
    /\ UNCHANGED <<cfg, names_vals, ijf_vals, ji_vals, targets, pos,
                   profile_name_cache, checked, found, web, net, sleeps, queued,
                   run, original, arg, ret>>

\* the final flush after the loop, one call at a time: the next non-empty
\* buffer is sent; no buffer is reset
FinalFlush ==
    /\ \/ pc = "loop" /\ pos > Len(targets)
       \/ pc = "final"
    /\ \E k \in {NextDue(Buffers, stage)} :
           IF k <= Len(FlushOrder)
           THEN /\ SendBuffer(k)
                /\ stage' = k + 1
                /\ pc' = IF NextDue(Buffers, k + 1) <= Len(FlushOrder)
                         THEN "final" ELSE "done"
           ELSE /\ pc' = "done"
                /\ UNCHANGED <<sent, sheet, stage>>
    /\ UNCHANGED <<cfg, names_vals, ijf_vals, ji_vals, targets, pos,
                   profile_name_cache, ijf_updates, ji_updates, color_updates_fetch,
                   color_updates_noname, color_updates_lowmatch, checked, found,
                   web, net, sleeps, queued, run, original, arg, ret>>

\* the call a flush is about to make raises (gspread's APIError): nothing in
\* main() catches it, the process ends and its memory is gone; the worksheet
\* keeps the calls made before it
StoreError ==
    /\ \/ pc = "flush"
       \/ pc = "final"
       \/ pc = "loop" /\ pos > Len(targets)
    /\ NextDue(Buffers, stage) <= Len(FlushOrder)
    /\ pc' = "failed"
    /\ names_vals' = <<>> /\ ijf_vals' = <<>> /\ ji_vals' = <<>>
    /\ targets' = <<>> /\ pos' = 1 /\ stage' = 1
    /\ profile_name_cache' = <<>>
    /\ ijf_updates' = <<>> /\ ji_updates' = <<>>
    /\ color_updates_fetch' = <<>> /\ color_updates_noname' = <<>>
    /\ color_updates_lowmatch' = <<>>
    /\ checked' = 0 /\ found' = 0
    /\ net' = <<>> /\ sleeps' = 0 /\ queued' = <<>>
    /\ UNCHANGED <<cfg, sheet, web, sent, run, original, arg, ret>>

Next == Start \/ ReadError \/ ProcessRecord \/ FlushStep \/ FinalFlush \/ StoreError

Spec == Init /\ [][Next]_vars

-----------------------------------------------------------------------------
(* Restart: the process stops between two records, or an error of the store *)
(* ends it, and main() is run again                                         *)

\* the run ends early, stopped between two records or by an error of the store:
\* its memory is lost, the worksheet keeps the calls that were made, and the next
\* run starts from the top of main()
Interrupt ==
    /\ pc \in {"loop", "failed", "aborted"}
    /\ run = 1
    /\ pc' = "start"
    /\ run' = run + 1
    /\ names_vals' = <<>> /\ ijf_vals' = <<>> /\ ji_vals' = <<>>
    /\ targets' = <<>> /\ pos' = 1 /\ stage' = 1
    /\ profile_name_cache' = <<>>
    /\ ijf_updates' = <<>> /\ ji_updates' = <<>>
    /\ color_updates_fetch' = <<>> /\ color_updates_noname' = <<>>
    /\ color_updates_lowmatch' = <<>>
    /\ checked' = 0 /\ found' = 0
    /\ net' = <<>> /\ sleeps' = 0 /\ queued' = <<>>
    /\ UNCHANGED <<cfg, sheet, web, sent, original, arg, ret>>

\* the worksheets of the restart model: rows with a name to resolve and a header row
RestartRowSamples ==
    { r \in RowSamples : r.name \in {NAME_LI_AL, NAME_AL_LI, NAME_HEADER}
                          /\ r.ijf # TEXT_OTHER }

InitRestart ==
    /\ pc = "start"
    /\ run = 1
    /\ cfg \in {c \in Configs : c.ENABLE_IJF}
    /\ sheet \in {SheetOf(rows) : rows \in [Rows -> RestartRowSamples]}
    /\ original = sheet
    /\ web = NoAnswers(TRUE)
    /\ sent = <<>>
    /\ arg = <<>> /\ ret = <<>>
    /\ Idle

NextRestart ==
    Start \/ ReadError \/ ProcessRecord \/ FlushStep \/ FinalFlush \/ StoreError \/ Interrupt

SpecRestart == InitRestart /\ [][NextRestart]_vars

-----------------------------------------------------------------------------
(* The pure functions on their own: one call with an argument from a bounded set *)

\* all texts of length 0..n over an alphabet
RECURSIVE Texts(_, _)
Texts(alphabet, n) ==
    IF n = 0 THEN {<<>>}
    ELSE LET shorter == Texts(alphabet, n - 1)
         IN  shorter \cup {Append(t, c) : t \in {u \in shorter : Len(u) = n - 1}, c \in alphabet}

NotRunning ==
    /\ run = 0
    /\ cfg = [ENABLE_IJF |-> TRUE, ENABLE_JUDOINSIDE |-> FALSE, ENABLE_AUDIT_COLOR |-> TRUE]
    /\ sheet = [values |-> <<>>, colors |-> <<>>]
    /\ original = sheet
    /\ web = NoAnswers(FALSE)
    /\ sent = <<>>
    /\ Idle

RawNames == Texts({"a", "A", "b", " ", "U+00A0", ","}, MaxLen)

InitNormalize ==
    /\ pc = "call"
    /\ arg \in RawNames
    /\ ret = <<>>
    /\ NotRunning

CallNormalize ==
    /\ pc = "call"
    /\ pc' = "ret"
    /\ ret' = build_queries_from_name(arg)
    /\ UNCHANGED <<cfg, sheet, names_vals, ijf_vals, ji_vals, targets, pos, stage,
                   profile_name_cache, ijf_updates, ji_updates, color_updates_fetch,
                   color_updates_noname, color_updates_lowmatch, checked, found,
                   web, net, sleeps, sent, queued, run, original, arg>>

SpecNormalize == InitNormalize /\ [][CallNormalize]_vars

TEXT_AL == <<"A", "l">>
TEXT_AL_JONES == <<"A", "l", " ", "J", "o", "n", "e", "s">>
TEXT_JOHN_SMITH == <<"J", "o", "h", "n", " ", "S", "m", "i", "t", "h">>
TEXT_JANE_DOE == <<"J", "a", "n", "e", " ", "D", "o", "e">>

ScoredNames ==
    Texts({"a", "B", " "}, MaxLen)
    \cup {TEXT_AL, TEXT_AL_JONES, TEXT_JOHN_SMITH, TEXT_JANE_DOE}

InitScore ==
    /\ pc = "call"
    /\ arg \in ScoredNames \X ScoredNames
    /\ ret = <<>>
    /\ NotRunning

CallScore ==
    /\ pc = "call"
    /\ pc' = "ret"
    /\ ret' = name_match_score(arg[1], arg[2])
    /\ UNCHANGED <<cfg, sheet, names_vals, ijf_vals, ji_vals, targets, pos, stage,
                   profile_name_cache, ijf_updates, ji_updates, color_updates_fetch,
                   color_updates_noname, color_updates_lowmatch, checked, found,
                   web, net, sleeps, sent, queued, run, original, arg>>

SpecScore == InitScore /\ [][CallScore]_vars

-----------------------------------------------------------------------------
(* Vocabulary of the properties *)

Indices == 0..(END_ROW - START_ROW)

\* the columns have been read and the process is alive or has run to the end:
\* the run is in its loop or in a flush, or it is done
Running == pc \in {"loop", "flush", "final", "done"}

\* the cell as the worksheet returned it, before .strip()
RawCell(vals, i) == IF vals[i + 1] # <<>> THEN vals[i + 1][1] ELSE <<>>

\* the indices of the records the loop has dealt with so far
Processed == {targets[k] : k \in 1..(pos - 1)}

\* the cell an address names, for the addresses of the URL cells of the range
\* (@@ <<>> makes the table an explicit one, computed once)
CellsByA1 ==
    [a1 \in {a1_notation(col, row) : col \in {IJF_COL, JUDOINSIDE_COL}, row \in Rows} |->
        CHOOSE c \in {Cell(m[2], m[3]) : m \in {ParseA1(a1)}} : TRUE] @@ <<>>

CellOfA1(a1) == CellsByA1[a1]

\* the single cell writes and cell colourings contained in one API request
ItemsOf(req, at) ==
    IF req.op = "values_batch_update"
    THEN [i \in DOMAIN req.data |->
            [kind |-> "url", cell |-> CellOfA1(req.data[i].range),
             value |-> req.data[i].values, at |-> at]]
    ELSE [i \in DOMAIN req.requests |->
            [kind |-> "color",
             cell |-> <<req.requests[i].startColumnIndex + 1,
                        req.requests[i].startRowIndex + 1>>,
             value |-> req.rgb, at |-> at]]

RECURSIVE SentFrom(_)
SentFrom(k) == IF k > Len(sent) THEN <<>> ELSE ItemsOf(sent[k], k) \o SentFrom(k + 1)

\* everything sent to the worksheet so far, one item per cell, in sending order
SentItems == SentFrom(1)

\* what the buffers hold that no call has sent: the batch flush resets a buffer
\* right after its call, the final flush leaves the buffers as they are
Unsent ==
    [name \in DOMAIN Buffers |->
        IF pc \in {"final", "done"} /\ \E j \in 1..(stage - 1) : FlushOrder[j] = name
        THEN <<>> ELSE Buffers[name]]

PendingItems ==
    [i \in DOMAIN Unsent.ijf |->
        [kind |-> "url", cell |-> Cell(IJF_COL, Unsent.ijf[i][1]), value |-> Unsent.ijf[i][2]]]
    \o [i \in DOMAIN Unsent.ji |->
        [kind |-> "url", cell |-> Cell(JUDOINSIDE_COL, Unsent.ji[i][1]), value |-> Unsent.ji[i][2]]]
    \o [i \in DOMAIN Unsent.fetch |->
        [kind |-> "color", cell |-> CellOfA1(Unsent.fetch[i]), value |-> COLOR_FETCH]]
    \o [i \in DOMAIN Unsent.noname |->
        [kind |-> "color", cell |-> CellOfA1(Unsent.noname[i]), value |-> COLOR_NO_NAME]]
    \o [i \in DOMAIN Unsent.lowmatch |->
        [kind |-> "color", cell |-> CellOfA1(Unsent.lowmatch[i]), value |-> COLOR_LOW_MATCH]]

TotalPending ==
    Len(ijf_updates) + Len(ji_updates) + Len(color_updates_fetch)
    + Len(color_updates_noname) + Len(color_updates_lowmatch)

\* how often the request (kind, cell, value) occurs in a sequence of items
Count(items, kind, cell, value) ==
    Cardinality({i \in DOMAIN items :
        items[i].kind = kind /\ items[i].cell = cell /\ items[i].value = value})

\* the URL values queued for the cell of a column and row, and the positions in
\* `queued` of the colours queued for it
QueuedUrls(col, row) ==
    {queued[k].value : k \in {j \in DOMAIN queued :
        queued[j].kind = "url" /\ queued[j].a1 = a1_notation(col, row)}}

QueuedColors(col, row) ==
    {k \in DOMAIN queued : queued[k].kind = "color" /\ queued[k].a1 = a1_notation(col, row)}

\* the queries of the names of the model, as a table, and the queries of the
\* record at index i
QueriesByName ==
    [name \in {Strip(r.name) : r \in RowSamples} |-> build_queries_from_name(name)] @@ <<>>

QueriesAt(i) == QueriesByName[CellText(names_vals, i)]

\* the network calls made for a row
CallsFor(row) == {k \in DOMAIN net : net[k].row = row}

\* the searches of a directory made for a row, and the URLs they returned
SearchCalls(site, row) ==
    {k \in CallsFor(row) : net[k].kind = IF site = "ijf" THEN "ijf_search" ELSE "ji_search"}

\* what the search functions return, as a table over the queries and the result
\* pages of the model
SearchResultByCase ==
    [c \in {"ijf", "ji"} \X (UNION {Range(qs) : qs \in Range(QueriesByName)})
            \X (IjfAnswers \cup JiAnswers) |->
        SearchResult(c[1], c[2], c[3])] @@ <<>>

SearchHits(site, row) ==
    {SearchResultByCase[<<site, net[k].what, net[k].answer>>] : k \in SearchCalls(site, row)}
    \ {None}

\* the fetches of a profile page
ProfileCalls(url) == {k \in DOMAIN net : net[k].kind = "profile" /\ net[k].what = url}

\* what the search loop returns on the answers a deterministic web has given: the
\* result of the first query whose answer holds a profile link
RECURSIVE SearchOutcome(_, _)
SearchOutcome(site, qs) ==
    IF qs = <<>> THEN None
    ELSE LET key == normalize_spaces(Head(qs))
         IN  IF key \in DOMAIN web[site]
                /\ SearchResult(site, Head(qs), web[site][key]) # None
             THEN SearchResult(site, Head(qs), web[site][key])
             ELSE SearchOutcome(site, Tail(qs))

-----------------------------------------------------------------------------
(* Properties of the pure functions *)

\* the tokens of a name, as a list: the lower-cased, cleaned text split on spaces
TokenList(t) ==
    LET c == normalize_spaces(KeepTokenChars(Lower(normalize_spaces(t))))
    IN  IF c = <<>> THEN <<>> ELSE Split(c, " ")

\* C6: name_match_score returns 0.0 whenever the query or the candidate name has
\* fewer than two tokens; in particular the score of "Al" against "Al Jones" is 0.0.
C6_ShortNamesScoreZero ==
    pc = "ret" =>
        /\ (Len(TokenList(arg[1])) < 2 \/ Len(TokenList(arg[2])) < 2) => FracIsZero(ret)
        /\ (arg = <<TEXT_AL, TEXT_AL_JONES>>) => FracIsZero(ret)

HasComma(t) == \E i \in DOMAIN t : t[i] = ","

\* the text before the first comma, and the whole remainder with its commas removed
SurnameGroup(t) ==
    normalize_spaces(SubSeq(t, 1, SetMin({i \in DOMAIN t : t[i] = ","}) - 1))

GivenGroup(t) ==
    normalize_spaces(ReplaceBySpace(
        SubSeq(t, SetMin({i \in DOMAIN t : t[i] = ","}) + 1, Len(t)), ","))

\* C7: for a raw name with a comma whose surname group (before the first comma)
\* and given-name group (the whole remainder) are both non-empty, the normalizer
\* returns [surname given, given surname], without the second entry exactly when
\* the two are equal ignoring case.
C7_CommaNameQueries ==
    (pc = "ret" /\ HasComma(arg) /\ SurnameGroup(arg) # <<>> /\ GivenGroup(arg) # <<>>) =>
        LET first == SurnameGroup(arg) \o <<" ">> \o GivenGroup(arg)
            second == GivenGroup(arg) \o <<" ">> \o SurnameGroup(arg)
        IN  ret = IF Lower(first) = Lower(second) THEN <<first>> ELSE <<first, second>>

-----------------------------------------------------------------------------
(* Properties of a run of main() *)

UrlColumns == {IJF_COL, JUDOINSIDE_COL}

ColumnVals(col) == IF col = IJF_COL THEN ijf_vals ELSE ji_vals

\* C1 as stated: a URL cell that the worksheet returned non-empty at the start of
\* the run gets no URL write request and keeps its value.
C1_FillOnceAsRead ==
    Running =>
        \A i \in Indices : \A col \in UrlColumns :
            RawCell(ColumnVals(col), i) # <<>> =>
                /\ QueuedUrls(col, START_ROW + i) = {}
                /\ sheet.values[Cell(col, START_ROW + i)] = RawCell(ColumnVals(col), i)

\* C1 (amended): a URL cell whose text was non-empty after trimming when it was
\* read at the start of the run gets no URL write request and keeps its value,
\* whatever the searches return and whatever the toggles are.
C1_FillOnce ==
    Running =>
        \A i \in Indices : \A col \in UrlColumns :
            CellText(ColumnVals(col), i) # <<>> =>
                /\ QueuedUrls(col, START_ROW + i) = {}
                /\ sheet.values[Cell(col, START_ROW + i)] = RawCell(ColumnVals(col), i)

\* a finished run that found a URL for some record while another processed
\* record, audited over the network, already had its IJF cell filled
C1_Witness ==
    /\ pc = "done"
    /\ cfg.ENABLE_IJF
    /\ found >= 1
    /\ \E i \in Processed :
          /\ CellText(ijf_vals, i) # <<>>
          /\ QueriesAt(i) # <<>>
          /\ CallsFor(START_ROW + i) # {}

\* C2: a URL is queued for writing only if the display name of its profile
\* reaches the confidence threshold against one of the record's queries; a
\* low-confidence candidate is never written.  (Stated for the URLs whose display
\* name the run has fetched, with the looser of the thresholds, AUDIT_THRESHOLD.)
C2_ThresholdAcceptance ==
    Running =>
        \A k \in DOMAIN queued :
            (/\ queued[k].kind = "url"
             /\ queued[k].value \in DOMAIN profile_name_cache
             /\ profile_name_cache[queued[k].value][2] = "OK") =>
                LET disp_name == profile_name_cache[queued[k].value][1]
                    i == ParseA1(queued[k].a1)[3] - START_ROW
                IN  ~BelowAuditThreshold(MaxScore(QueriesAt(i), disp_name))

\* the URL cell of record i after the fill steps, and the cell the audit looks at
CellAfterFill(col, i) ==
    LET q == QueuedUrls(col, START_ROW + i)
    IN  IF q # {} THEN CHOOSE u \in q : TRUE ELSE CellText(ColumnVals(col), i)

AuditedAt(i) == AuditTarget(CellAfterFill(IJF_COL, i), CellAfterFill(JUDOINSIDE_COL, i))

\* the colours the taxonomy asks for, from the answer r of the profile page
Taxonomy(url, r, qs) ==
    IF ~r.resp \/ r.status # 200 THEN {COLOR_FETCH}
    ELSE LET name == fetch_profile_display_name(url, r)[1]
         IN  IF name = None THEN {COLOR_NO_NAME}
             ELSE IF BelowAuditThreshold(MaxScore(qs, name)) THEN {COLOR_LOW_MATCH}
             ELSE {}

\* the same, as a table over the profile URLs, pages and names of the model
TaxonomyByCase ==
    [c \in {URL_IJF_1, URL_JI_7} \X ProfileAnswers \X Range(QueriesByName) |->
        Taxonomy(c[1], c[2], c[3])] @@ <<>>

TaxonomyColors(url, r, qs) == TaxonomyByCase[<<url, r, qs>>]

\* C3: for an audited URL the outcome follows the profile fetch: failed or
\* non-200 -> fetch list, 200 without a name -> no-name list, 200 with a name
\* scoring below AUDIT_THRESHOLD -> low-match list, otherwise no list; an audited
\* cell is in at most one list.
C3_AuditTaxonomy ==
    (Running /\ cfg.ENABLE_AUDIT_COLOR) =>
        \A i \in Processed : \A qs \in {QueriesAt(i)} : \A t \in {AuditedAt(i)} :
            (qs # <<>> /\ t.url # None) =>
                \A colors \in {QueuedColors(t.col, START_ROW + i)} :
                \A fetches \in {ProfileCalls(t.url)} :
                    /\ fetches # {}
                    /\ Cardinality(colors) <= 1
                    /\ \A f \in fetches :
                          {queued[k].value : k \in colors}
                            = TaxonomyColors(t.url, net[f].answer, qs)

\* a finished run that audited one cell as a failed fetch and another as a low match
C3_Witness ==
    /\ pc = "done"
    /\ \E k \in DOMAIN queued : queued[k].kind = "color" /\ queued[k].value = COLOR_FETCH
    /\ \E k \in DOMAIN queued : queued[k].kind = "color" /\ queued[k].value = COLOR_LOW_MATCH

\* every request queued so far is accounted for once: sent, or still in a buffer
\* that no call has sent; at the end nothing is left
NothingLostOrRepeated ==
    \A sentItems \in {SentItems} :
    \A pending \in {PendingItems} :
        /\ \A k \in DOMAIN queued : \A cell \in {CellOfA1(queued[k].a1)} :
              Count(sentItems, queued[k].kind, cell, queued[k].value)
              + Count(pending, queued[k].kind, cell, queued[k].value) = 1
        /\ Len(sentItems) + Len(pending) = Len(queued)
        /\ pc = "done" => pending = <<>>

\* C4: after each record the buffers are flushed when they hold BATCH_SIZE
\* requests or more, and are empty when the loop goes on; the remainder is
\* flushed at the end; as long as no store error ends the run, every queued
\* request is sent exactly once.
C4_BatchWriter ==
    /\ pc = "loop" => TotalPending < BATCH_SIZE
    /\ pc = "flush" => TotalPending >= 1
    /\ Running => NothingLostOrRepeated

\* a finished run with a batch flush in the loop and a remainder in the final flush
C4_Witness ==
    /\ pc = "done"
    /\ TotalPending >= 1
    /\ Len(queued) > TotalPending
    /\ Len(sent) >= 2

\* a name cell that is empty after trimming, or the header "name" in any case
EmptyOrHeader(name) == name = <<>> \/ Lower(name) \in {<<"n", "a", "m", "e">>}

SiteOf(col) == IF col = IJF_COL THEN "ijf" ELSE "ji"

Enabled(col) == IF col = IJF_COL THEN cfg.ENABLE_IJF ELSE cfg.ENABLE_JUDOINSIDE

\* the values sent to the worksheet for a cell, as positions in a list of items
UrlWrites(items, cell) ==
    {k \in DOMAIN items : items[k].kind = "url" /\ items[k].cell = cell}

\* C5: a row whose name is empty after trimming or is the header "name" in any
\* case gets no search, no profile fetch, no URL write request and no colour
\* flag; a row with a name and an empty output cell of an enabled directory gets
\* exactly one write, of the URL the search returned, when the search returned one.
C5_SkippedAndFilledRows ==
    Running =>
        \A items \in {SentItems} :
        \A i \in Indices : \A row \in {START_ROW + i} :
            IF EmptyOrHeader(CellText(names_vals, i))
            THEN /\ CallsFor(row) = {}
                 /\ \A k \in DOMAIN queued : CellOfA1(queued[k].a1)[2] # row
                 /\ \A col \in UrlColumns :
                       sheet.values[Cell(col, row)] = RawCell(ColumnVals(col), i)
            ELSE pc = "done" =>
                 \A col \in UrlColumns :
                    (Enabled(col) /\ CellText(ColumnVals(col), i) = <<>>) =>
                        \A hits \in {SearchHits(SiteOf(col), row)} :
                        \A writes \in {UrlWrites(items, Cell(col, row))} :
                            /\ QueriesAt(i) # <<>> => SearchCalls(SiteOf(col), row) # {}
                            /\ Cardinality(hits) <= 1
                            /\ IF hits = {} THEN writes = {}
                               ELSE /\ Cardinality(writes) = 1
                                    /\ \A k \in writes : items[k].value \in hits

\* a finished run over a header row and a row whose empty IJF cell was filled
C5_Witness ==
    /\ pc = "done"
    /\ \E i \in Indices : CellText(names_vals, i) = NAME_HEADER
                          /\ CellText(ijf_vals, i) # <<>>
    /\ \E i \in Indices : /\ CellText(names_vals, i) = NAME_LI_AL
                          /\ Len(QueriesAt(i)) = 2
                          /\ CellText(ijf_vals, i) = <<>>
                          /\ sheet.values[Cell(IJF_COL, START_ROW + i)] = URL_IJF_1

\* C9: in one run a profile page is fetched at most once per URL; later records
\* with the same URL reuse the cached result, so a FETCH or NO_NAME status is
\* applied to every record sharing the URL, and a cache hit makes no network
\* call and no pacing sleep.
C9_ProfileCache ==
    Running =>
        /\ \A url \in DOMAIN profile_name_cache : Cardinality(ProfileCalls(url)) = 1
        /\ \A k \in DOMAIN net :
              net[k].kind = "profile" => net[k].what \in DOMAIN profile_name_cache
        /\ sleeps = Len(net)
        /\ cfg.ENABLE_AUDIT_COLOR =>
              \A i \in Processed : \A t \in {AuditedAt(i)} :
                 (QueriesAt(i) # <<>> /\ t.url # None) =>
                    /\ t.url \in DOMAIN profile_name_cache
                    /\ \A st \in {profile_name_cache[t.url][2]} :
                       \A colors \in {{queued[k].value : k \in QueuedColors(t.col, START_ROW + i)}} :
                          /\ st = "FETCH" => colors = {COLOR_FETCH}
                          /\ st = "NO_NAME" => colors = {COLOR_NO_NAME}

\* a finished run in which two records shared a URL whose page could not be
\* fetched: both cells are flagged, the page was requested once
C9_Witness ==
    /\ pc = "done"
    /\ \E i, j \in Processed :
          /\ i # j
          /\ AuditedAt(i).url # None
          /\ AuditedAt(i).url = AuditedAt(j).url
          /\ AuditedAt(i).url \in DOMAIN profile_name_cache
          /\ profile_name_cache[AuditedAt(i).url][2] = "FETCH"
          /\ QueuedColors(AuditedAt(i).col, START_ROW + i) # {}
          /\ QueuedColors(AuditedAt(j).col, START_ROW + j) # {}

\* the column read at the start of the run that holds a cell
ValsOfCell(cell) == IF cell[1] = col_to_index(IJF_COL) THEN ijf_vals ELSE ji_vals

HoldsProfileUrl(text) ==
    \/ StartsWith(Strip(text), IJF_JUDOKA_PREFIX)
    \/ StartsWith(Strip(text), JUDOINSIDE_BASE \o <<"/judoka/">>)

\* C10: whenever a colour flag for a cell is sent, the cell already holds a URL
\* in the worksheet: it was non-empty when read at the start of the run, or its
\* URL write was sent before the flag (in an earlier flush or earlier in the
\* same flush); no flag is applied to a cell that is still empty.
C10_UrlBeforeFlag ==
    Running =>
        \A items \in {SentItems} : \A k \in DOMAIN items :
            items[k].kind = "color" =>
                \A cell \in {items[k].cell} :
                    /\ cell \in DOMAIN sheet.values
                    /\ \/ CellText(ValsOfCell(cell), cell[2] - START_ROW) # <<>>
                       \/ \E j \in 1..(k - 1) : items[j].kind = "url" /\ items[j].cell = cell
                    /\ HoldsProfileUrl(sheet.values[cell])

\* a flag was sent for a cell that was empty when the run read it
C10_Witness ==
    /\ Running
    /\ \E k \in DOMAIN SentItems :
          /\ SentItems[k].kind = "color"
          /\ CellText(ValsOfCell(SentItems[k].cell), SentItems[k].cell[2] - START_ROW) = <<>>

\* the URL cell one uninterrupted run leaves behind, from the worksheet before
\* the first run and the answers of the web: the search result where the row has
\* a name, the directory is enabled, the cell is empty and the search finds a
\* profile; the cell as it was otherwise
UninterruptedResult(col, row) ==
    LET name == Strip(original.values[Cell(SEARCH_COL, row)])
        cell0 == original.values[Cell(col, row)]
        got == SearchOutcome(SiteOf(col), build_queries_from_name(name))
    IN  IF ~EmptyOrHeader(name) /\ Enabled(col) /\ Strip(cell0) = <<>> /\ got # None
        THEN got ELSE cell0

\* C8: when a run is stopped at a record boundary, after any number of batch
\* flushes (or ended by a store error inside a flush), and main() is run again
\* to the end on the worksheet it left, with the same answers from the web, the
\* URL cells end up as one uninterrupted run leaves them, and no URL cell is
\* written twice across the two runs.
C8_IdempotentRestart ==
    \A items \in {SentItems} :
        /\ \A row \in Rows : \A col \in UrlColumns :
              Cardinality(UrlWrites(items, Cell(col, row))) <= 1
        /\ pc = "done" =>
              \A row \in Rows : \A col \in UrlColumns :
                  sheet.values[Cell(col, row)] = UninterruptedResult(col, row)

\* the second run has finished; one IJF cell was flushed by the first run (empty
\* before it, filled when the second run read it), another was filled by the second
C8_Witness ==
    /\ pc = "done"
    /\ run = 2
    /\ \E i \in Indices :
          /\ Strip(original.values[Cell(IJF_COL, START_ROW + i)]) = <<>>
          /\ CellText(ijf_vals, i) = URL_IJF_1
    /\ \E i \in Indices :
          /\ CellText(ijf_vals, i) = <<>>
          /\ sheet.values[Cell(IJF_COL, START_ROW + i)] = URL_IJF_1

====
